---- MODULE Spec2Model ----
(***************************************************************************)
(* A model of two leaf components of the resolver:                         *)
(*   - crates/uv-configuration/src/name_specifiers.rs                      *)
(*       PackageNameSpecifier (token parsing) and PackageNameSpecifiers    *)
(*       (the fold that collapses :all: / :none: / names);                 *)
(*   - crates/puffin-distribution/src/source.rs                            *)
(*       Source (classification of a URL, and the conversions back to a    *)
(*       URL and to a DirectUrl record).                                   *)
(* Strings are sequences of symbols.  A symbol is either one character or  *)
(* one of the literals the code matches on (":all:", "git+",               *)
(* "subdirectory", ...), so prefix tests, splits and comparisons are       *)
(* computed on sequences exactly as the code computes them on strings.     *)
(***************************************************************************)
EXTENDS Integers, Sequences, FiniteSets, TLC

VARIABLES
    \* ---- PackageNameSpecifiers::from_iter
    specifiers,   \* the whole argument of from_iter (kept for reference)
    iter,         \* what the iterator has not yielded yet
    packages,     \* let mut packages = Vec::new()
    all,          \* let mut all: bool = false
    collapsed,    \* the value from_iter returned, Pending before it returns
    \* ---- PackageNameSpecifier parsing
    token,        \* the string handed to both parsers
    fromStr,      \* result of FromStr::from_str, Pending before the call
    visited,      \* result of Visitor::visit_str, Pending before the call
    \* ---- Source
    input,        \* the &Url handed to Source::try_from
    source,       \* the Source under conversion (or the error of try_from)
    asUrl,        \* result of Url::from(source)
    direct,       \* result of DirectUrl::try_from(source)
    again,        \* result of Source::try_from(&asUrl)
    asUrlAgain    \* result of Url::from(again)

cvars == <<specifiers, iter, packages, all, collapsed>>
tvars == <<token, fromStr, visited>>
svars == <<input, source, asUrl, direct, again, asUrlAgain>>
vars == <<cvars, tvars, svars>>

Pending == [kind |-> "Pending"]

\* Result<T, E>
Ok(v) == [ok |-> TRUE, value |-> v, err |-> ""]
Err(e) == [ok |-> FALSE, value |-> Pending, err |-> e]

(***************************************************************************)
(* Bounds of the model.                                                    *)
(***************************************************************************)
MaxSpecifiers == 4     \* longest sequence handed to from_iter
MaxToken == 3          \* longest token (in symbols) handed to the parsers

SeqsUpTo(S, n) == UNION {[1..k -> S] : k \in 0..n}

(***************************************************************************)
(* name_specifiers.rs: enum PackageNameSpecifier, enum                     *)
(* PackageNameSpecifiers.                                                  *)
(***************************************************************************)
Names == {<<"a">>, <<"b">>}

SpecAll == [kind |-> "All", name |-> <<>>]
SpecNone == [kind |-> "None", name |-> <<>>]
SpecPackage(n) == [kind |-> "Package", name |-> n]

PackageNameSpecifier == {SpecAll, SpecNone} \cup {SpecPackage(n) : n \in Names}

CollapsedAll == [kind |-> "All", names |-> <<>>]
CollapsedNone == [kind |-> "None", names |-> <<>>]
CollapsedPackages(l) == [kind |-> "Packages", names |-> l]

\* The accumulator of the fold: (packages, all).
NewAcc == [packages |-> <<>>, all |-> FALSE]

\* PackageNameSpecifier::None => { packages.clear(); all = false; }
OnNoneKeepsAll(acc) == [packages |-> <<>>, all |-> acc.all]
OnNone(acc) == [packages |-> <<>>, all |-> FALSE]

\* PackageNameSpecifier::All => { all = true; }
OnAll(acc) == [packages |-> acc.packages, all |-> TRUE]

\* PackageNameSpecifier::Package(name) => { packages.push(name); }
OnPackagePrepends(acc, name) == [packages |-> <<name>> \o acc.packages, all |-> acc.all]
OnPackage(acc, name) == [packages |-> Append(acc.packages, name), all |-> acc.all]

\* if all { All } else if packages.is_empty() { None } else { Packages(packages) }
Finish(acc) ==
    IF acc.all THEN CollapsedAll
    ELSE IF acc.packages = <<>> THEN CollapsedNone
    ELSE CollapsedPackages(acc.packages)

Acc == [packages |-> packages, all |-> all]

InitCollapse ==
    /\ specifiers \in SeqsUpTo(PackageNameSpecifier, MaxSpecifiers)
    /\ iter = specifiers
    /\ packages = NewAcc.packages
    /\ all = NewAcc.all
    /\ collapsed = Pending
    /\ token = <<>> /\ fromStr = Err("idle") /\ visited = Err("idle")
    /\ input = Pending /\ source = Err("idle") /\ asUrl = Pending
    /\ direct = Pending /\ again = Pending /\ asUrlAgain = Pending

Looping == collapsed = Pending /\ iter # <<>>

VisitNone ==
    /\ Looping
    /\ Head(iter).kind = "None"
    /\ packages' = OnNone(Acc).packages
    /\ all' = OnNone(Acc).all
    /\ iter' = Tail(iter)
    /\ UNCHANGED <<specifiers, collapsed, tvars, svars>>

VisitAll ==
    /\ Looping
    /\ Head(iter).kind = "All"
    /\ packages' = OnAll(Acc).packages
    /\ all' = OnAll(Acc).all
    /\ iter' = Tail(iter)
    /\ UNCHANGED <<specifiers, collapsed, tvars, svars>>

VisitPackage ==
    /\ Looping
    /\ Head(iter).kind = "Package"
    /\ packages' = OnPackage(Acc, Head(iter).name).packages
    /\ all' = OnPackage(Acc, Head(iter).name).all
    /\ iter' = Tail(iter)
    /\ UNCHANGED <<specifiers, collapsed, tvars, svars>>

Return ==
    /\ collapsed = Pending
    /\ iter = <<>>
    /\ collapsed' = Finish(Acc)
    /\ UNCHANGED <<specifiers, iter, packages, all, tvars, svars>>

(***************************************************************************)
(* name_specifiers.rs: the two parsers of one token.                       *)
(***************************************************************************)
TokenSymbols == {":all:", ":none:", "a", "A", "-", ":"}

IsAlnum(c) == c \in {"a", "A"}
IsNameChar(c) == c \in {"a", "A", "-"}
Lower(c) == IF c = "A" THEN "a" ELSE c

\* Lowercases, and replaces each run of separators by a single "-".
RECURSIVE NormalizeName(_)
NormalizeName(s) ==
    IF s = <<>> THEN <<>>
    ELSE IF Head(s) = "-" /\ Len(s) > 1 /\ s[2] = "-" THEN NormalizeName(Tail(s))
    ELSE <<Lower(Head(s))>> \o NormalizeName(Tail(s))

\* PackageName::from_str: the name must be made of letters, digits and
\* separators and must start and end with a letter or digit.
PackageNameFromStr(s) ==
    IF /\ s # <<>>
       /\ \A k \in 1..Len(s) : IsNameChar(s[k])
       /\ IsAlnum(s[1])
       /\ IsAlnum(s[Len(s)])
    THEN Ok(NormalizeName(s))
    ELSE Err("InvalidNameError")

\* impl FromStr for PackageNameSpecifier
FromStr(name) ==
    IF name = <<":all:">> THEN Ok(SpecAll)
    ELSE IF name = <<":none:">> THEN Ok(SpecNone)
    ELSE IF PackageNameFromStr(name).ok
         THEN Ok(SpecPackage(PackageNameFromStr(name).value))
         ELSE Err(PackageNameFromStr(name).err)

\* Visitor::visit_str
VisitStrWithoutNone(value) ==
    IF value = <<":all:">> THEN Ok(SpecAll)
    ELSE IF PackageNameFromStr(value).ok
         THEN Ok(SpecPackage(PackageNameFromStr(value).value))
         ELSE Err("custom")
VisitStr(value) ==
    IF value = <<":all:">> THEN Ok(SpecAll)
    ELSE IF value = <<":none:">> THEN Ok(SpecNone)
    ELSE IF PackageNameFromStr(value).ok
         THEN Ok(SpecPackage(PackageNameFromStr(value).value))
         ELSE Err("custom")

InitToken ==
    /\ token \in SeqsUpTo(TokenSymbols, MaxToken)
    /\ fromStr = Pending
    /\ visited = Pending
    /\ specifiers = <<>> /\ iter = <<>> /\ packages = <<>> /\ all = FALSE
    /\ collapsed = CollapsedNone
    /\ input = Pending /\ source = Err("idle") /\ asUrl = Pending
    /\ direct = Pending /\ again = Pending /\ asUrlAgain = Pending

CallFromStr ==
    /\ fromStr = Pending
    /\ fromStr' = FromStr(token)
    /\ UNCHANGED <<token, visited, cvars, svars>>

CallVisitStr ==
    /\ visited = Pending
    /\ visited' = VisitStr(token)
    /\ UNCHANGED <<token, fromStr, cvars, svars>>

(***************************************************************************)
(* Strings.  Option<T> is a sequence of at most one element: <<>> is None  *)
(* and <<x>> is Some(x).                                                   *)
(***************************************************************************)
None == <<>>
Some(x) == <<x>>

From(s, i) == SubSeq(s, i, Len(s))

\* Position of the first / last occurrence of c in s, 0 when there is none.
IndexOf(s, c) ==
    IF \E i \in 1..Len(s) : s[i] = c
    THEN CHOOSE i \in 1..Len(s) : s[i] = c /\ \A j \in 1..(i - 1) : s[j] # c
    ELSE 0

LastIndexOf(s, c) ==
    IF \E i \in 1..Len(s) : s[i] = c
    THEN CHOOSE i \in 1..Len(s) : s[i] = c /\ \A j \in (i + 1)..Len(s) : s[j] # c
    ELSE 0

\* str::strip_prefix
StripPrefix(s, p) ==
    IF Len(s) >= Len(p) /\ SubSeq(s, 1, Len(p)) = p
    THEN Some(From(s, Len(p) + 1))
    ELSE None

\* str::split: the pieces between the separators, empty pieces included.
RECURSIVE Split(_, _)
Split(s, sep) ==
    IF IndexOf(s, sep) = 0 THEN <<s>>
    ELSE <<SubSeq(s, 1, IndexOf(s, sep) - 1)>> \o Split(From(s, IndexOf(s, sep) + 1), sep)

RECURSIVE StripLeading(_, _)
StripLeading(s, c) ==
    IF s # <<>> /\ Head(s) = c THEN StripLeading(Tail(s), c) ELSE s

(***************************************************************************)
(* url::Url.  A Url is the record of the components the parser found; its  *)
(* string form is their serialisation.                                    *)
(*   scheme ":" [ "//" authority ] path [ "#" fragment ]                   *)
(***************************************************************************)
SchemeSymbols == {"git+", "https", "x", "1"}
SchemeStarts == {"git+", "https", "x"}       \* a scheme starts with a letter
IsSpecial(scheme) == scheme = <<"https">>

Url(scheme, authority, path, fragment) ==
    [scheme |-> scheme, authority |-> authority, path |-> path, fragment |-> fragment]

\* Url::as_str
AsStr(url) ==
    url.scheme \o <<":">>
    \o (IF url.authority = None THEN <<>> ELSE <<"/", "/">> \o url.authority[1])
    \o url.path
    \o (IF url.fragment = None THEN <<>> ELSE <<"#">> \o url.fragment[1])

\* A fragment is percent-encoded: a space becomes "%20"; the characters a
\* serialised fragment is made of, "%" included, stay as they are.
PercentEncodeFragment(s) == [i \in 1..Len(s) |-> IF s[i] = " " THEN "%20" ELSE s[i]]

\* The "@" of a userinfo are percent-encoded.
EncodeUserinfo(s) == [i \in 1..Len(s) |-> IF s[i] = "@" THEN "%40" ELSE s[i]]

\* userinfo "@" host: the host is what follows the last "@".
ParseAuthority(auth, special) ==
    LET at == LastIndexOf(auth, "@")
        userinfo == EncodeUserinfo(SubSeq(auth, 1, at - 1))
        host == From(auth, at + 1)
    IN  IF host = <<>> /\ (special \/ userinfo # <<>>) THEN Err("EmptyHost")
        ELSE IF special /\ \E i \in 1..Len(host) : host[i] = "%40" THEN Err("InvalidDomainCharacter")
        ELSE IF userinfo = <<>> THEN Ok(host)
        ELSE Ok(userinfo \o <<"@">> \o host)

\* Url::parse
UrlParse(s) ==
    LET colon == IndexOf(s, ":")
        scheme == SubSeq(s, 1, colon - 1)
        rest == From(s, colon + 1)
        hash == IndexOf(rest, "#")
        pre == IF hash = 0 THEN rest ELSE SubSeq(rest, 1, hash - 1)
        fragment == IF hash = 0 THEN None
                    ELSE Some(PercentEncodeFragment(From(rest, hash + 1)))
        special == IsSpecial(scheme)
        hier == IF special THEN StripLeading(pre, "/") ELSE From(pre, 3)
        slash == IndexOf(hier, "/")
        auth == IF slash = 0 THEN hier ELSE SubSeq(hier, 1, slash - 1)
        path == IF slash = 0 THEN <<>> ELSE From(hier, slash)
    IN  IF \/ colon <= 1
           \/ scheme[1] \notin SchemeStarts
           \/ \E i \in 1..Len(scheme) : scheme[i] \notin SchemeSymbols
        THEN Err("RelativeUrlWithoutBase")
        ELSE IF special \/ StripPrefix(pre, <<"/", "/">>) # None
        THEN IF ParseAuthority(auth, special).ok
             THEN Ok(Url(scheme, Some(ParseAuthority(auth, special).value),
                         IF special /\ path = <<>> THEN <<"/">> ELSE path, fragment))
             ELSE Err(ParseAuthority(auth, special).err)
        ELSE Ok(Url(scheme, None, pre, fragment))

\* Url::set_fragment(Some(fragment))
SetFragment(url, fragment) ==
    [url EXCEPT !.fragment = Some(PercentEncodeFragment(fragment))]

\* Url::set_path: a URL that can be a base always gets a path starting with "/".
CannotBeABase(url) == url.authority = None /\ (url.path = <<>> \/ url.path[1] # "/")
SetPath(url, path) ==
    IF CannotBeABase(url) \/ (path # <<>> /\ path[1] = "/")
    THEN [url EXCEPT !.path = path]
    ELSE [url EXCEPT !.path = <<"/">> \o path]

(***************************************************************************)
(* puffin_git::Git, the locator of a repository: its URL, the reference    *)
(* that was asked for and the precise commit once it is resolved.          *)
(***************************************************************************)
Git(url, reference, precise) == [url |-> url, reference |-> reference, precise |-> precise]

\* Git::try_from(url): the fragment is dropped and a trailing "@<rev>" is the reference.
GitTryFrom(url) ==
    LET bare == [url EXCEPT !.fragment = None]
        at == LastIndexOf(AsStr(bare), "@")
        prefix == UrlParse(SubSeq(AsStr(bare), 1, at - 1))
    IN  IF at = 0 THEN Ok(Git(bare, None, None))
        ELSE IF prefix.ok THEN Ok(Git(prefix.value, Some(From(AsStr(bare), at + 1)), None))
        ELSE Err("VcsLocatorError")

\* Url::from(git): the URL with "@<commit>", or else "@<reference>", added to its path.
GitIntoUrl(git) ==
    IF git.precise # None THEN SetPath(git.url, git.url.path \o <<"@">> \o git.precise[1])
    ELSE IF git.reference # None THEN SetPath(git.url, git.url.path \o <<"@">> \o git.reference[1])
    ELSE git.url

(***************************************************************************)
(* source.rs: enum Source and its conversions.                             *)
(***************************************************************************)
RegistryUrl(url) == [kind |-> "RegistryUrl", url |-> url]
RemoteUrl(url, subdirectory) == [kind |-> "RemoteUrl", url |-> url, subdirectory |-> subdirectory]
GitSource(git, subdirectory) == [kind |-> "Git", git |-> git, subdirectory |-> subdirectory]

Registry(fileUrl) == [kind |-> "Registry", file |-> fileUrl]
DirectRef(url) == [kind |-> "Url", url |-> url]

SubdirectoryKey == <<"subdirectory=">>

\* .find_map(|fragment| fragment.strip_prefix("subdirectory=").map(PathBuf::from))
RECURSIVE FindMapLast(_)
FindMapLast(tokens) ==
    IF tokens = <<>> THEN None
    ELSE IF FindMapLast(Tail(tokens)) # None THEN FindMapLast(Tail(tokens))
    ELSE StripPrefix(Head(tokens), SubdirectoryKey)
RECURSIVE FindMap(_)
FindMap(tokens) ==
    IF tokens = <<>> THEN None
    ELSE IF StripPrefix(Head(tokens), SubdirectoryKey) # None
         THEN StripPrefix(Head(tokens), SubdirectoryKey)
         ELSE FindMap(Tail(tokens))

\* url.fragment().and_then(|fragment| fragment.split('&').find_map(..))
Subdirectory(url) ==
    IF url.fragment = None THEN None ELSE FindMap(Split(url.fragment[1], "&"))

\* impl TryFrom<&Url> for Source
SourceTryFromFallsBack(url) ==
    LET stripped == StripPrefix(AsStr(url), <<"git+">>)
    IN  IF stripped # None /\ UrlParse(stripped[1]).ok /\ GitTryFrom(UrlParse(stripped[1]).value).ok
        THEN Ok(GitSource(GitTryFrom(UrlParse(stripped[1]).value).value, Subdirectory(url)))
        ELSE Ok(RemoteUrl(url, Subdirectory(url)))
SourceTryFrom(url) ==
    LET stripped == StripPrefix(AsStr(url), <<"git+">>)
    IN  IF stripped # None
        THEN IF ~UrlParse(stripped[1]).ok THEN Err(UrlParse(stripped[1]).err)
             ELSE IF ~GitTryFrom(UrlParse(stripped[1]).value).ok
                  THEN Err(GitTryFrom(UrlParse(stripped[1]).value).err)
                  ELSE Ok(GitSource(GitTryFrom(UrlParse(stripped[1]).value).value,
                                    Subdirectory(url)))
        ELSE Ok(RemoteUrl(url, Subdirectory(url)))

\* impl TryFrom<&RemoteDistributionRef> for Source
SourceTryFromRef(value) ==
    IF value.kind = "Registry"
    THEN IF UrlParse(value.file).ok THEN Ok(RegistryUrl(UrlParse(value.file).value))
         ELSE Err(UrlParse(value.file).err)
    ELSE SourceTryFrom(value.url)

\* Source::RemoteUrl(url, subdirectory) => ...
RemoteUrlIntoUrlMerges(url, subdirectory) ==
    IF subdirectory = None THEN Ok(url)
    ELSE IF url.fragment = None THEN Ok(SetFragment(url, SubdirectoryKey \o subdirectory[1]))
    ELSE Ok(SetFragment(url, url.fragment[1] \o <<"&">> \o SubdirectoryKey \o subdirectory[1]))
RemoteUrlIntoUrl(url, subdirectory) ==
    IF subdirectory # None
    THEN Ok(SetFragment(url, SubdirectoryKey \o subdirectory[1]))
    ELSE Ok(url)

\* Source::Git(git, subdirectory) => ...
GitSourceIntoUrlWithoutScheme(git, subdirectory) ==
    LET url == UrlParse(<<"git+">> \o GitIntoUrl(git).path)
    IN  IF ~url.ok THEN Err("panic: git url is valid")
        ELSE IF subdirectory # None
        THEN Ok(SetFragment(url.value, SubdirectoryKey \o subdirectory[1]))
        ELSE url
GitSourceIntoUrlWithoutPrefix(git, subdirectory) ==
    IF subdirectory # None
    THEN Ok(SetFragment(GitIntoUrl(git), SubdirectoryKey \o subdirectory[1]))
    ELSE Ok(GitIntoUrl(git))
GitSourceIntoUrl(git, subdirectory) ==
    LET url == UrlParse(<<"git+">> \o AsStr(GitIntoUrl(git)))
    IN  IF ~url.ok THEN Err("panic: git url is valid")
        ELSE IF subdirectory # None
        THEN Ok(SetFragment(url.value, SubdirectoryKey \o subdirectory[1]))
        ELSE url

\* impl From<Source> for Url
UrlFrom(value) ==
    IF value.kind = "RegistryUrl" THEN Ok(value.url)
    ELSE IF value.kind = "RemoteUrl" THEN RemoteUrlIntoUrl(value.url, value.subdirectory)
    ELSE GitSourceIntoUrl(value.git, value.subdirectory)

ArchiveUrl(url, hash, hashes, subdirectory) ==
    [kind |-> "ArchiveUrl", url |-> url,
     archive_info |-> [hash |-> hash, hashes |-> hashes],
     subdirectory |-> subdirectory]
VcsUrl(url, vcs, commit_id, requested_revision, subdirectory) ==
    [kind |-> "VcsUrl", url |-> url,
     vcs_info |-> [vcs |-> vcs, commit_id |-> commit_id,
                   requested_revision |-> requested_revision],
     subdirectory |-> subdirectory]

\* Source::Git(git, subdirectory) => Ok(DirectUrl::VcsUrl { .. })
GitSourceIntoDirectUrlSwapped(git, subdirectory) ==
    Ok(VcsUrl(AsStr(git.url), "Git", git.reference, git.precise, subdirectory))
GitSourceIntoDirectUrl(git, subdirectory) ==
    Ok(VcsUrl(AsStr(git.url), "Git", git.precise, git.reference, subdirectory))

\* impl TryFrom<Source> for DirectUrl
DirectUrlTryFromRegistryToo(value) ==
    IF value.kind = "Git" THEN GitSourceIntoDirectUrl(value.git, value.subdirectory)
    ELSE Ok(ArchiveUrl(AsStr(value.url), None, None,
                       IF value.kind = "RemoteUrl" THEN value.subdirectory ELSE None))
DirectUrlTryFrom(value) ==
    IF value.kind = "RegistryUrl" THEN Err("Registry dependencies have no direct URL")
    ELSE IF value.kind = "RemoteUrl"
    THEN Ok(ArchiveUrl(AsStr(value.url), None, None, value.subdirectory))
    ELSE GitSourceIntoDirectUrl(value.git, value.subdirectory)

(***************************************************************************)
(* The values the conversions are applied to.                              *)
(***************************************************************************)
MaxBody == 4           \* longest authority-and-path (in symbols) of an input URL
MaxFragment == 5       \* longest fragment (in symbols) of an input URL

Schemes ==
    {<<"https">>, <<"x">>, <<"x", "git+">>,
     <<"git+">>, <<"git+", "https">>, <<"git+", "x">>, <<"git+", "1">>}
BodySymbols == {"/", "x", "@"}
FragmentSymbols == {"subdirectory=", "&", "x", "y"}

\* Strings with every shape of scheme, authority and path, and a few fragments.
FewFragments ==
    {<<>>, <<"#">>, <<"#", "subdirectory=", "x", " ", "y">>,
     <<"#", "y", "&", "subdirectory=">>}
BodyStrings ==
    {sch \o <<":">> \o b \o f :
        sch \in Schemes, b \in SeqsUpTo(BodySymbols, MaxBody), f \in FewFragments}

\* Strings with every shape of fragment, behind a few schemes and one host and path.
FragmentStrings ==
    {sch \o <<":", "/", "/", "x", "/", "x", "#">> \o f :
        sch \in {<<"https">>, <<"git+", "https">>},
        f \in SeqsUpTo(FragmentSymbols, MaxFragment)}

\* A Url is a value Url::parse returned.
Parsed(strings) == {UrlParse(s).value : s \in {t \in strings : UrlParse(t).ok}}
InputUrls == Parsed(BodyStrings \cup FragmentStrings)

\* file.url of a registry entry is a plain string: it may not parse.
FileUrls ==
    {sch \o <<":">> \o b :
        sch \in {<<"https">>, <<"1", "x">>}, b \in SeqsUpTo(BodySymbols, MaxBody)}

References == {Registry(s) : s \in FileUrls} \cup {DirectRef(u) : u \in InputUrls}

\* Source is a public enum: a caller can also build any value of it.
BuiltUrls ==
    Parsed({<<"https", ":", "/", "/", "x", "/">>,
            <<"https", ":", "/", "/", "x", "/", "#", "y", "&", "subdirectory=", "x">>,
            <<"x", ":", "x">>,
            <<"x", ":", "/", "/", "x", "@", "x">>,
            <<"git+", "x", ":", "/", "x", "#", "y">>})
BuiltSubdirectories == {None, Some(<<>>), Some(<<"x">>), Some(<<"y", " ", "x">>)}
BuiltRevisions == {None, Some(<<"1">>)}
BuiltSources ==
    {RegistryUrl(u) : u \in BuiltUrls}
    \cup {RemoteUrl(u, d) : u \in BuiltUrls, d \in BuiltSubdirectories}
    \cup {GitSource(Git(u, r, c), d) :
            u \in BuiltUrls, r \in BuiltRevisions, c \in BuiltRevisions,
            d \in BuiltSubdirectories}

Init ==
    /\ input \in References \cup {Pending}
    /\ source \in IF input = Pending THEN {Ok(s) : s \in BuiltSources} ELSE {Pending}
    /\ asUrl = Pending
    /\ direct = Pending
    /\ again = Pending
    /\ asUrlAgain = Pending
    /\ specifiers = <<>> /\ iter = <<>> /\ packages = <<>> /\ all = FALSE
    /\ collapsed = CollapsedNone
    /\ token = <<>> /\ fromStr = Err("idle") /\ visited = Err("idle")

Done(result) == result # Pending
Succeeded(result) == result # Pending /\ result.ok

\* Source::try_from(&RemoteDistributionRef::Registry(..))
ClassifyRegistry ==
    /\ ~Done(source)
    /\ input.kind = "Registry"
    /\ source' = SourceTryFromRef(input)
    /\ UNCHANGED <<input, asUrl, direct, again, asUrlAgain, cvars, tvars>>

\* Source::try_from(&RemoteDistributionRef::Url(..)), that is Source::try_from(&Url)
ClassifyUrl ==
    /\ ~Done(source)
    /\ input.kind = "Url"
    /\ source' = SourceTryFromRef(input)
    /\ UNCHANGED <<input, asUrl, direct, again, asUrlAgain, cvars, tvars>>

\* Url::from(source)
IntoUrl ==
    /\ Succeeded(source)
    /\ ~Done(asUrl)
    /\ asUrl' = UrlFrom(source.value)
    /\ UNCHANGED <<input, source, direct, again, asUrlAgain, cvars, tvars>>

\* DirectUrl::try_from(source)
IntoDirectUrl ==
    /\ Succeeded(source)
    /\ ~Done(direct)
    /\ direct' = DirectUrlTryFrom(source.value)
    /\ UNCHANGED <<input, source, asUrl, again, asUrlAgain, cvars, tvars>>

\* Source::try_from(&url) on the URL that Url::from(source) returned
Reclassify ==
    /\ Succeeded(asUrl)
    /\ ~Done(again)
    /\ again' = SourceTryFrom(asUrl.value)
    /\ UNCHANGED <<input, source, asUrl, direct, asUrlAgain, cvars, tvars>>

\* Url::from of the re-classified source
IntoUrlAgain ==
    /\ Succeeded(again)
    /\ ~Done(asUrlAgain)
    /\ asUrlAgain' = UrlFrom(again.value)
    /\ UNCHANGED <<input, source, asUrl, direct, again, cvars, tvars>>

Next ==
    \/ ClassifyRegistry
    \/ ClassifyUrl
    \/ IntoUrl
    \/ IntoDirectUrl
    \/ Reclassify
    \/ IntoUrlAgain

Spec == Init /\ [][Next]_vars

NextCollapse == VisitNone \/ VisitAll \/ VisitPackage \/ Return
SpecCollapse == InitCollapse /\ [][NextCollapse]_vars

NextToken == CallFromStr \/ CallVisitStr
SpecToken == InitToken /\ [][NextToken]_vars

(***************************************************************************)
(* What the fold is expected to return, stated on the whole argument       *)
(* rather than step by step.                                               *)
(***************************************************************************)
\* Position of the last None of the sequence, 0 when it has none.
LastNone(s) ==
    IF \E i \in 1..Len(s) : s[i].kind = "None"
    THEN CHOOSE i \in 1..Len(s) :
            s[i].kind = "None" /\ \A j \in (i + 1)..Len(s) : s[j].kind # "None"
    ELSE 0

AllAfterLastNone(s) == \E i \in (LastNone(s) + 1)..Len(s) : s[i].kind = "All"

IsPackage(specifier) == specifier.kind = "Package"
NamesAfterLastNone(s) ==
    LET kept == SelectSeq(From(s, LastNone(s) + 1), IsPackage)
    IN  [i \in 1..Len(kept) |-> kept[i].name]

\* C1: from_iter returns All if and only if an All token occurs after the last
\* None token of the sequence (anywhere, when there is no None), whether that
\* All comes before or after the Package tokens of that last segment.
C1_AllIffAllAfterLastNone ==
    Done(collapsed) =>
        (collapsed = CollapsedAll <=> AllAfterLastNone(specifiers))

\* from_iter returned All for a sequence where a name follows the All and an
\* earlier segment was reset.
C1_Witness ==
    /\ Done(collapsed)
    /\ collapsed = CollapsedAll
    /\ Len(specifiers) = 4
    /\ specifiers[1].kind = "All"
    /\ specifiers[2].kind = "None"
    /\ specifiers[3].kind = "All"
    /\ specifiers[4].kind = "Package"

\* C2: with no All after the last None, from_iter returns None when no Package
\* follows the last None, and otherwise Packages(L), L being the names of the
\* Package tokens after the last None in their order, duplicates kept.
C2_NamesAfterLastNone ==
    (Done(collapsed) /\ ~AllAfterLastNone(specifiers)) =>
        collapsed = IF NamesAfterLastNone(specifiers) = <<>>
                    THEN CollapsedNone
                    ELSE CollapsedPackages(NamesAfterLastNone(specifiers))

\* from_iter returned the two names after a reset, in order, the name before
\* the reset dropped.
C2_Witness ==
    /\ Done(collapsed)
    /\ specifiers = <<SpecPackage(<<"a">>), SpecNone, SpecPackage(<<"b">>), SpecPackage(<<"a">>)>>
    /\ collapsed = CollapsedPackages(<<<<"b">>, <<"a">>>>)

(***************************************************************************)
(* The two token parsers.                                                  *)
(***************************************************************************)
\* C9: ":all:" parses to All, ":none:" to None, any other string to
\* Package(name) when the name is valid and to an error otherwise; from_str and
\* visit_str agree on every string: the same specifier, or both an error.
C9_ParsersAgree ==
    (Done(fromStr) /\ Done(visited)) =>
        /\ fromStr.ok = visited.ok
        /\ fromStr.value = visited.value
        /\ token = <<":all:">> => fromStr = Ok(SpecAll)
        /\ token = <<":none:">> => fromStr = Ok(SpecNone)
        /\ token \notin {<<":all:">>, <<":none:">>} =>
              IF PackageNameFromStr(token).ok
              THEN fromStr = Ok(SpecPackage(PackageNameFromStr(token).value))
              ELSE fromStr = Err("InvalidNameError")

\* Both parsers ran on ":none:" and both returned None.
C9_Witness ==
    /\ token = <<":none:">>
    /\ Done(fromStr) /\ Done(visited)
    /\ visited = Ok(SpecNone)

(***************************************************************************)
(* Source.                                                                 *)
(***************************************************************************)
\* The fragment's tokens are what lies between its "&": one starts at 1 and
\* after every "&".
TokenStarts(f) == {i \in 1..Len(f) : i = 1 \/ f[i - 1] = "&"}
KeyStarts(f) == {i \in TokenStarts(f) : f[i] = "subdirectory="}
FirstKeyStart(f) == CHOOSE i \in KeyStarts(f) : \A j \in KeyStarts(f) : i <= j
TokenEnd(f, i) ==
    IF \E k \in i..Len(f) : f[k] = "&"
    THEN (CHOOSE k \in i..Len(f) : f[k] = "&" /\ \A j \in i..(k - 1) : f[j] # "&") - 1
    ELSE Len(f)
ExpectedSubdirectory(url) ==
    IF url.fragment = None \/ KeyStarts(url.fragment[1]) = {} THEN None
    ELSE Some(SubSeq(url.fragment[1], FirstKeyStart(url.fragment[1]) + 1,
                     TokenEnd(url.fragment[1], FirstKeyStart(url.fragment[1]))))

\* C3: the subdirectory of classify(url) is the value of the first
\* "&"-separated fragment token whose key is exactly subdirectory; later such
\* tokens and all other tokens are ignored; no fragment, or no such token, gives
\* no subdirectory; for the Git and for the RemoteUrl result alike.
C3_FirstSubdirectoryToken ==
    (input.kind = "Url" /\ Succeeded(source)) =>
        /\ source.value.kind \in {"Git", "RemoteUrl"}
        /\ source.value.subdirectory = ExpectedSubdirectory(input.url)

\* A git+ URL with two subdirectory tokens was classified as Git with the
\* first one's value.
C3_Witness ==
    /\ input.kind = "Url"
    /\ input.url.fragment = Some(<<"subdirectory=", "x", "&", "subdirectory=", "y">>)
    /\ Succeeded(source)
    /\ source.value.kind = "Git"
    /\ source.value.subdirectory = Some(<<"x">>)

\* C4: a URL whose string starts with "git+" classifies as Git, built from
\* the remainder, or fails with a URL-parse or VCS-locator error, never as
\* RemoteUrl; any other URL classifies as RemoteUrl carrying the unmodified
\* URL; classify(url) never returns RegistryUrl.
C4_GitPrefixDecides ==
    (input.kind = "Url" /\ Done(source)) =>
        IF Head(AsStr(input.url)) = "git+"
        THEN IF source.ok
             THEN /\ source.value.kind = "Git"
                  /\ UrlParse(Tail(AsStr(input.url))).ok
                  /\ Ok(source.value.git) = GitTryFrom(UrlParse(Tail(AsStr(input.url))).value)
             ELSE source.err \in
                    {"RelativeUrlWithoutBase", "EmptyHost", "InvalidDomainCharacter",
                     "VcsLocatorError"}
        ELSE /\ source.ok
             /\ source.value.kind = "RemoteUrl"
             /\ source.value.url = input.url

\* A git+ URL whose remainder is no URL was classified, and the result is an error.
C4_Witness ==
    /\ input.kind = "Url"
    /\ Head(AsStr(input.url)) = "git+"
    /\ Done(source)
    /\ ~source.ok
    /\ source.err = "RelativeUrlWithoutBase"

\* C5: toDirectUrlRecord fails exactly for RegistryUrl (with the not-direct
\* error); a RemoteUrl gives an ArchiveUrl without integrity info and with the
\* source's subdirectory; a Git source gives a VcsUrl.
C5_OnlyRegistryFails ==
    Done(direct) =>
        /\ direct.ok <=> source.value.kind # "RegistryUrl"
        /\ source.value.kind = "RegistryUrl" =>
              direct.err = "Registry dependencies have no direct URL"
        /\ source.value.kind = "RemoteUrl" =>
              /\ direct.value.kind = "ArchiveUrl"
              /\ direct.value.archive_info = [hash |-> None, hashes |-> None]
              /\ direct.value.subdirectory = source.value.subdirectory
        /\ source.value.kind = "Git" => direct.value.kind = "VcsUrl"

\* A registry entry was classified as RegistryUrl and its conversion failed.
C5_Witness ==
    /\ input.kind = "Registry"
    /\ Succeeded(source)
    /\ source.value.kind = "RegistryUrl"
    /\ Done(direct)
    /\ ~direct.ok

\* C6 as stated: toUrl(RemoteUrl(url, subdirectory)) is, with a subdirectory,
\* url with its fragment replaced by exactly subdirectory=<path> and every
\* other component kept, and without one, url unchanged, fragment included.
C6_FragmentExact ==
    (Done(asUrl) /\ source.value.kind = "RemoteUrl") =>
        /\ asUrl.ok
        /\ source.value.subdirectory # None =>
              /\ asUrl.value.fragment =
                    Some(<<"subdirectory=">> \o source.value.subdirectory[1])
              /\ asUrl.value.scheme = source.value.url.scheme
              /\ asUrl.value.authority = source.value.url.authority
              /\ asUrl.value.path = source.value.url.path
        /\ source.value.subdirectory = None => asUrl.value = source.value.url

\* C6 as amended: toUrl(RemoteUrl(url, subdirectory)) is, with a subdirectory,
\* url with its fragment replaced by subdirectory=<path>, percent-encoded as
\* a fragment (so equal to subdirectory=<path> when the path came out of a
\* URL's fragment), and every other component kept, and without one, url
\* unchanged, fragment included.
C6_FragmentReplaced ==
    (Done(asUrl) /\ source.value.kind = "RemoteUrl") =>
        /\ asUrl.ok
        /\ source.value.subdirectory # None =>
              /\ asUrl.value.fragment =
                    Some(<<"subdirectory=">>
                         \o PercentEncodeFragment(source.value.subdirectory[1]))
              /\ input.kind = "Url" =>
                    asUrl.value.fragment =
                        Some(<<"subdirectory=">> \o source.value.subdirectory[1])
              /\ asUrl.value.scheme = source.value.url.scheme
              /\ asUrl.value.authority = source.value.url.authority
              /\ asUrl.value.path = source.value.url.path
        /\ source.value.subdirectory = None => asUrl.value = source.value.url

\* A RemoteUrl whose URL has another fragment token before the subdirectory
\* was converted: the other token is gone.
C6_Witness ==
    /\ Done(asUrl)
    /\ source.value.kind = "RemoteUrl"
    /\ source.value.url.fragment = Some(<<"y", "&", "subdirectory=", "x">>)
    /\ source.value.subdirectory = Some(<<"x">>)
    /\ asUrl.value.fragment = Some(<<"subdirectory=", "x">>)

\* C7: toUrl never fails: for every Source of any variant it returns a URL; for
\* Git, parsing "git+" followed by the locator's URL always succeeds.
C7_IntoUrlNeverFails ==
    /\ Done(asUrl) => asUrl.ok
    /\ Done(asUrlAgain) => asUrlAgain.ok

\* A Git source with a precise commit and a cannot-be-a-base URL was converted.
C7_Witness ==
    /\ Succeeded(asUrl)
    /\ source.value.kind = "Git"
    /\ source.value.git.precise # None
    /\ CannotBeABase(source.value.git.url)
    /\ Head(asUrl.value.scheme) = "git+"

\* C8: toDirectUrlRecord(Git(locator, subdirectory)) is VcsUrl with the
\* locator's repository URL, vcs kind Git, the locator's resolved revision and
\* requested reference, each passed through whether present or absent, and the
\* same subdirectory.
C8_VcsUrlFields ==
    (Done(direct) /\ source.value.kind = "Git") =>
        /\ direct.ok
        /\ direct.value.kind = "VcsUrl"
        /\ direct.value.url = AsStr(source.value.git.url)
        /\ direct.value.vcs_info.vcs = "Git"
        /\ direct.value.vcs_info.commit_id = source.value.git.precise
        /\ direct.value.vcs_info.requested_revision = source.value.git.reference
        /\ direct.value.subdirectory = source.value.subdirectory

\* A classified git+ URL with a reference and no resolved commit was
\* converted: the record has the reference and no commit.
C8_Witness ==
    /\ input.kind = "Url"
    /\ Succeeded(direct)
    /\ source.value.kind = "Git"
    /\ source.value.git.reference # None
    /\ direct.value.vcs_info.commit_id = None
    /\ direct.value.vcs_info.requested_revision # None
    /\ direct.value.subdirectory # None

\* C10: when classify(u) succeeds with s, classify(toUrl(s)) succeeds with
\* the variant and the subdirectory of s, and toUrl of that equals toUrl(s).
C10_RoundTrip ==
    /\ (input.kind = "Url" /\ Done(asUrl)) => asUrl.ok
    /\ (input.kind = "Url" /\ Done(again)) =>
          /\ again.ok
          /\ again.value.kind = source.value.kind
          /\ again.value.subdirectory = source.value.subdirectory
    /\ (input.kind = "Url" /\ Done(asUrlAgain)) => asUrlAgain = asUrl

\* A git+ URL with a reference and a second fragment token went through the
\* round trip: the token was lost in the first pass and nothing after.
C10_Witness ==
    /\ input.kind = "Url"
    /\ Done(asUrlAgain)
    /\ source.value.kind = "Git"
    /\ source.value.git.reference # None
    /\ source.value.subdirectory # None
    /\ asUrl.value.fragment # input.url.fragment

====
